---- MODULE Spec2Model ----
(***************************************************************************)
(* Weighted partial MaxSAT solver: CNF (src/src/cnf.py) and the            *)
(* branch-and-bound backtracking search CSP (src/src/csp.py).              *)
(*                                                                         *)
(* Strings are sequences of one-character strings, so that startswith,     *)
(* strip and lstrip are computed as Python computes them.  The recursion   *)
(* of CSP.solve.backtrack is an explicit stack of frames.                  *)
(***************************************************************************)
EXTENDS Integers, Sequences, FiniteSets, TLC

VARIABLES
    cnf_variables,      \* CNF.variables: the declared names, a list of strings
    hard_clauses,       \* CNF.hard_clauses: list of clauses, a clause is a list of literals
    soft_clauses,       \* CNF.soft_clauses: list of [lits, weight]
    use_mcv, use_mrv, use_lcv,
    variables,          \* CSP.variables: the keys of the dict, in dict order
    constraints,        \* CSP.constraints: list of (predicate, scope)
    assigned_variables, \* CSP.assigned_variables: name -> BOOLEAN, partial
    best_solution,      \* CSP.best_solution: unset, None or a complete assignment
    best_weight,        \* CSP.best_weight: unset or an integer
    stack,              \* the active frames of backtrack(), root first
    pc                  \* "new", "error", "ready", "enter", "loop", "done"

vars == <<cnf_variables, hard_clauses, soft_clauses, use_mcv, use_mrv, use_lcv,
          variables, constraints, assigned_variables, best_solution, best_weight,
          stack, pc>>

formula == <<cnf_variables, hard_clauses, soft_clauses, use_mcv, use_mrv, use_lcv>>

---------------------------------------------------------------------------
(* Bounds of the model *)

\* hard clauses + soft clauses + registered constraints of one run
MaxItems == 2
\* literals per clause
MaxClauseLen == 2
\* the largest soft-clause weight
MaxWeight == 1

\* the variable names of the runs; the dict order of CSP.variables is any order
NameSeq == << <<"a">>, <<"b">> >>
Names == {NameSeq[i] : i \in 1..Len(NameSeq)}
\* the negation markers of CNF.evaluate_clause
Markers == {"-", "~", "¬"}
\* the literals the runs write: the first name with every marker, the others
\* with '~' alone
Literals ==
    Names \cup {<<"~">> \o n : n \in Names} \cup {<<m>> \o NameSeq[1] : m \in Markers}
\* the soft-clause weights the runs write: 1..MaxWeight, and a negative one
Weights == (1..MaxWeight) \cup {-1}

\* None where a variable name is expected; no name is the empty string
None == <<>>
\* an attribute solve() has not set yet
Unset == [unset |-> TRUE]
\* the values of CSP.best_weight
Weight(w) == [value |-> w]
\* the values of CSP.best_solution: None, or a copy of an assignment
NoSolution == [found |-> FALSE]
Solution(a) == [found |-> TRUE, assignment |-> a]
EmptyAssignment == [n \in {} |-> FALSE]

---------------------------------------------------------------------------
(* Python primitives *)

\* str.startswith(c) for a one-character c
startswith(s, c) == Len(s) > 0 /\ s[1] = c

RECURSIVE lstrip(_, _)
\* str.lstrip(chars)
lstrip(s, chars) ==
    IF Len(s) > 0 /\ s[1] \in chars THEN lstrip(Tail(s), chars) ELSE s

RECURSIVE rstrip(_, _)
\* str.rstrip(chars)
rstrip(s, chars) ==
    IF Len(s) > 0 /\ s[Len(s)] \in chars
    THEN rstrip(SubSeq(s, 1, Len(s) - 1), chars) ELSE s

\* str.strip(chars)
strip(s, chars) == rstrip(lstrip(s, chars), chars)

\* dict.get(key, default)
get(d, key, default) == IF key \in DOMAIN d THEN d[key] ELSE default

\* x in list
InList(x, list) == \E i \in 1..Len(list) : list[i] = x

\* int(x) on the integer weights of the model
PyInt(w) == w

\* temp = d.copy(); temp[key] = value
CopyWith(d, key, value) ==
    [k \in DOMAIN d \cup {key} |-> IF k = key THEN value ELSE d[k]]

---------------------------------------------------------------------------
(* CNF *)

\* CNF.evaluate_negation
evaluate_negation(literal, assignments) ==
    LET var == lstrip(literal, {"-", "~", "¬"})
    IN  ~ get(assignments, var, FALSE)

\* the truth value of one literal inside CNF.evaluate_clause
evaluate_literal(literal, assignments) ==
    IF startswith(literal, "-") \/ startswith(literal, "~") \/ startswith(literal, "¬")
    THEN evaluate_negation(literal, assignments)
    ELSE get(assignments, literal, FALSE)

\* CNF.evaluate_clause
evaluate_clause(clause, assignments) ==
    \E i \in 1..Len(clause) : evaluate_literal(clause[i], assignments)

RECURSIVE SumWeights(_, _)
SumWeights(softs, assignments) ==
    IF softs = <<>> THEN 0
    ELSE (IF evaluate_clause(Head(softs).lits, assignments)
          THEN PyInt(Head(softs).weight) ELSE 0)
         + SumWeights(Tail(softs), assignments)

\* CNF.calculate_weight
calculate_weight(assignments) == SumWeights(soft_clauses, assignments)

---------------------------------------------------------------------------
(* CSP: the checks *)

\* all(lit.strip('~') in assignment for lit in clause)
fully_assigned(clause, assignment) ==
    \A i \in 1..Len(clause) : strip(clause[i], {"~"}) \in DOMAIN assignment

\* the indices of the hard clauses that are fully assigned and not satisfied
unsatisfied(assignment) ==
    {i \in 1..Len(hard_clauses) :
        /\ fully_assigned(hard_clauses[i], assignment)
        /\ ~ evaluate_clause(hard_clauses[i], assignment)}

\* the registered predicate func applied to a dict
ApplyPredicate(constraint, assignment) ==
    [n \in constraint.scope |-> assignment[n]] \in constraint.allowed

\* CSP.is_constraint_satisfied
is_constraint_satisfied(constraint) ==
    IF \A v \in constraint.scope : v \in DOMAIN assigned_variables
    THEN ApplyPredicate(constraint, assigned_variables)
    ELSE TRUE

\* CSP.is_consistent
is_consistent(variable, value) ==
    LET temp_assignment == CopyWith(assigned_variables, variable, value)
    IN  /\ unsatisfied(temp_assignment) = {}
        /\ \A i \in 1..Len(constraints) : is_constraint_satisfied(constraints[i])

\* CSP.is_complete
is_complete == Cardinality(DOMAIN assigned_variables) = Len(variables)

---------------------------------------------------------------------------
(* CSP: the heuristics *)

\* a bug of the list of unassigned variables: the filter is left out
unassigned_unfiltered == variables

\* [var for var in self.variables if var not in self.assigned_variables]
unassigned == SelectSeq(variables, LAMBDA v : v \notin DOMAIN assigned_variables)

\* the number of values of [True, False] that pass is_consistent
legal_values(var) ==
    Cardinality({value \in BOOLEAN : is_consistent(var, value)})

min_legal_init == 3

RECURSIVE mrv_loop(_, _, _)
mrv_loop(vs, min_legal, selected) ==
    IF vs = <<>> THEN selected
    ELSE IF legal_values(Head(vs)) < min_legal
         THEN mrv_loop(Tail(vs), legal_values(Head(vs)), Head(vs))
         ELSE mrv_loop(Tail(vs), min_legal, selected)

\* CSP.minimum_remaining_value
minimum_remaining_value == mrv_loop(unassigned, min_legal_init, None)

\* the degree most_constraining_variable counts for var
degree(var) ==
    Cardinality({i \in 1..Len(hard_clauses) :
        /\ ~ evaluate_clause(hard_clauses[i], assigned_variables)
        /\ (InList(var, hard_clauses[i]) \/ InList(<<"~">> \o var, hard_clauses[i]))})

max_degree_init == -1

RECURSIVE mcv_loop(_, _, _)
mcv_loop(vs, max_degree, selected) ==
    IF vs = <<>> THEN selected
    ELSE IF degree(Head(vs)) > max_degree
         THEN mcv_loop(Tail(vs), degree(Head(vs)), Head(vs))
         ELSE mcv_loop(Tail(vs), max_degree, selected)

\* CSP.most_constraining_variable
most_constraining_variable(unassigned_variables) ==
    mcv_loop(unassigned_variables, max_degree_init, None)

\* the violation count least_constraining_value gives a value
violation(var, value) ==
    Cardinality(unsatisfied(CopyWith(assigned_variables, var, value)))

\* CSP.least_constraining_value
least_constraining_value(var) ==
    IF violation(var, TRUE) <= violation(var, FALSE) THEN TRUE ELSE FALSE

\* CSP.select_unassigned_variable
select_unassigned_variable ==
    IF use_mrv /\ minimum_remaining_value # None
    THEN minimum_remaining_value
    ELSE IF use_mcv /\ ~ use_mrv /\ most_constraining_variable(unassigned) # None
    THEN most_constraining_variable(unassigned)
    ELSE IF unassigned # <<>> THEN unassigned[1] ELSE None

RECURSIVE SumBound(_, _)
SumBound(softs, assignments) ==
    IF softs = <<>> THEN 0
    ELSE (IF fully_assigned(Head(softs).lits, assignments)
          THEN (IF evaluate_clause(Head(softs).lits, assignments)
                THEN PyInt(Head(softs).weight) ELSE 0)
          ELSE PyInt(Head(softs).weight))
         + SumBound(Tail(softs), assignments)

\* CSP.optimistic_bound
optimistic_bound(assignments) == SumBound(soft_clauses, assignments)

\* CSP.assign
assign(assignment, variable, value) == CopyWith(assignment, variable, value)

\* a bug of CSP.unassign: the entry is not deleted
unassign_keeps(assignment, variable) == assignment

\* CSP.unassign
unassign(assignment, variable) ==
    [k \in DOMAIN assignment \ {variable} |-> assignment[k]]

---------------------------------------------------------------------------
(* The inputs of the runs *)

NameIndex(n) == CHOOSE i \in 1..Len(NameSeq) : NameSeq[i] = n
LiteralName(l) == lstrip(l, Markers)

\* clauses of at most MaxClauseLen literals over distinct names, names in order
ClausePool ==
    {c \in UNION {[1..n -> Literals] : n \in 0..MaxClauseLen} :
        \A i, j \in 1..Len(c) :
            i < j => NameIndex(LiteralName(c[i])) < NameIndex(LiteralName(c[j]))}

\* soft clauses: one literal and a weight
SoftPool == {[lits |-> <<l>>, weight |-> w] : l \in Literals, w \in Weights}

\* the predicates add_constraint registers: a scope and the value tuples it allows
ConstraintPool ==
    {[scope |-> {n}, allowed |-> {[m \in {n} |-> b]}] : n \in Names, b \in BOOLEAN}
    \cup {[scope |-> Names, allowed |-> {f \in [Names -> BOOLEAN] : \E n \in Names : f[n]}],
          [scope |-> Names, allowed |-> {f \in [Names -> BOOLEAN] : \E n \in Names : ~ f[n]}]}

\* one list per subset of at most k elements of S
RECURSIVE SetToSeq(_)
SetToSeq(S) ==
    IF S = {} THEN <<>>
    ELSE LET x == CHOOSE x \in S : TRUE IN <<x>> \o SetToSeq(S \ {x})

RECURSIVE SubsetsUpTo(_, _)
SubsetsUpTo(S, k) ==
    IF k = 0 THEN {{}}
    ELSE LET smaller == SubsetsUpTo(S, k - 1)
         IN  smaller \cup {T \cup {x} : T \in smaller, x \in S}

ListsUpTo(S, k) == {SetToSeq(T) : T \in SubsetsUpTo(S, k)}

HardLists == ListsUpTo(ClausePool, MaxItems)
SoftLists == ListsUpTo(SoftPool, MaxItems)

\* the permutations of a set of names, as lists
Orders(S) == {o \in [1..Cardinality(S) -> S] : \A i, j \in DOMAIN o : i # j => o[i] # o[j]}

---------------------------------------------------------------------------
(* The runs: CNF(...), CSP(cnf, flags), add_constraint*, solve() *)

Init ==
    /\ cnf_variables = NameSeq
    /\ hard_clauses \in HardLists
    /\ soft_clauses \in SoftLists
    /\ Len(hard_clauses) + Len(soft_clauses) <= MaxItems
    /\ use_mcv \in BOOLEAN
    /\ use_mrv \in BOOLEAN
    /\ use_lcv \in BOOLEAN
    /\ variables = <<>>
    /\ constraints = <<>>
    /\ assigned_variables = EmptyAssignment
    /\ best_solution = Unset
    /\ best_weight = Unset
    /\ stack = <<>>
    /\ pc = "new"

\* a bug of CSP.__init__: the check of the flags is left out
heuristics_conflict_unchecked == FALSE

\* CSP.__init__: the condition of the ValueError
heuristics_conflict == use_mcv /\ use_mrv

\* CSP.__init__
Construct ==
    /\ pc = "new"
    /\ IF heuristics_conflict
       THEN /\ pc' = "error"
            /\ UNCHANGED variables
       ELSE /\ pc' = "ready"
            /\ variables' \in Orders({strip(cnf_variables[i], {"~"}) : i \in 1..Len(cnf_variables)})
    /\ UNCHANGED <<formula, constraints, assigned_variables, best_solution, best_weight, stack>>

\* CSP.add_constraint
AddConstraint ==
    /\ pc = "ready"
    /\ Len(hard_clauses) + Len(soft_clauses) + Len(constraints) < MaxItems
    /\ \E c \in ConstraintPool : constraints' = Append(constraints, c)
    /\ UNCHANGED <<formula, variables, assigned_variables, best_solution, best_weight, stack, pc>>

NewFrame == [var |-> None, values |-> <<>>]

\* CSP.solve up to the first call of backtrack()
SolveStart ==
    /\ pc = "ready"
    /\ best_solution' = NoSolution
    /\ best_weight' = Weight(-1)
    /\ assigned_variables' = EmptyAssignment
    /\ stack' = <<NewFrame>>
    /\ pc' = "enter"
    /\ UNCHANGED <<formula, variables, constraints>>

Top == stack[Len(stack)]
Pop(s) == SubSeq(s, 1, Len(s) - 1)

\* return from the top frame of backtrack(): to self.unassign(var) of the
\* calling frame, or from the root frame to the return of solve()
Return ==
    /\ stack' = Pop(stack)
    /\ IF Len(stack) = 1
       THEN /\ pc' = "done"
            /\ UNCHANGED assigned_variables
       ELSE /\ pc' = "loop"
            /\ assigned_variables' = unassign(assigned_variables, stack[Len(stack) - 1].var)

\* backtrack(): a fully assigned hard clause is not satisfied
HardPrune ==
    /\ pc = "enter"
    /\ unsatisfied(assigned_variables) # {}
    /\ Return
    /\ UNCHANGED <<formula, variables, constraints, best_solution, best_weight>>

\* backtrack(): current_bound <= self.best_weight
BoundPrune ==
    /\ pc = "enter"
    /\ unsatisfied(assigned_variables) = {}
    /\ optimistic_bound(assigned_variables) <= best_weight.value
    /\ Return
    /\ UNCHANGED <<formula, variables, constraints, best_solution, best_weight>>

\* backtrack(): the assignment is complete
Complete ==
    /\ pc = "enter"
    /\ unsatisfied(assigned_variables) = {}
    /\ optimistic_bound(assigned_variables) > best_weight.value
    /\ is_complete
    /\ IF calculate_weight(assigned_variables) > best_weight.value
       THEN /\ best_weight' = Weight(calculate_weight(assigned_variables))
            /\ best_solution' = Solution(assigned_variables)
       ELSE UNCHANGED <<best_solution, best_weight>>
    /\ Return
    /\ UNCHANGED <<formula, variables, constraints>>

\* the order of the values backtrack() tries for var
value_order(var) ==
    IF use_lcv
    THEN <<least_constraining_value(var), ~ least_constraining_value(var)>>
    ELSE <<TRUE, FALSE>>

\* backtrack(): select the variable and the order of its values
Expand ==
    /\ pc = "enter"
    /\ unsatisfied(assigned_variables) = {}
    /\ optimistic_bound(assigned_variables) > best_weight.value
    /\ ~ is_complete
    /\ LET var == select_unassigned_variable
       IN  IF var = None
           THEN Return
           ELSE /\ stack' = [stack EXCEPT ![Len(stack)] = [var |-> var, values |-> value_order(var)]]
                /\ pc' = "loop"
                /\ UNCHANGED assigned_variables
    /\ UNCHANGED <<formula, variables, constraints, best_solution, best_weight>>

\* backtrack(): the next value is consistent: assign it and recurse
Descend ==
    /\ pc = "loop"
    /\ Top.values # <<>>
    /\ is_consistent(Top.var, Head(Top.values))
    /\ assigned_variables' = assign(assigned_variables, Top.var, Head(Top.values))
    /\ stack' = Append([stack EXCEPT ![Len(stack)].values = Tail(@)], NewFrame)
    /\ pc' = "enter"
    /\ UNCHANGED <<formula, variables, constraints, best_solution, best_weight>>

\* backtrack(): the next value is not consistent
SkipValue ==
    /\ pc = "loop"
    /\ Top.values # <<>>
    /\ ~ is_consistent(Top.var, Head(Top.values))
    /\ stack' = [stack EXCEPT ![Len(stack)].values = Tail(@)]
    /\ UNCHANGED <<formula, variables, constraints, assigned_variables, best_solution, best_weight, pc>>

\* backtrack(): the values are exhausted
LoopExit ==
    /\ pc = "loop"
    /\ Top.values = <<>>
    /\ Return
    /\ UNCHANGED <<formula, variables, constraints, best_solution, best_weight>>

Next ==
    \/ Construct
    \/ AddConstraint
    \/ SolveStart
    \/ HardPrune
    \/ BoundPrune
    \/ Complete
    \/ Expand
    \/ Descend
    \/ SkipValue
    \/ LoopExit

Spec == Init /\ [][Next]_vars

\* solve() is a synchronous call of one thread: a step that can be taken is taken
FairSpec == Spec /\ WF_vars(Next)

---------------------------------------------------------------------------
(* The reference semantics the claims compare the solver with *)

DeclaredNames == {cnf_variables[i] : i \in 1..Len(cnf_variables)}
CompleteAssignments == [DeclaredNames -> BOOLEAN]
SatisfiesHard(a) == \A i \in 1..Len(hard_clauses) : evaluate_clause(hard_clauses[i], a)
Feasible == {a \in CompleteAssignments : SatisfiesHard(a)}
BruteForceMax ==
    CHOOSE w \in {calculate_weight(a) : a \in Feasible} :
        \A a \in Feasible : calculate_weight(a) <= w
Extends(c, a) == \A n \in DOMAIN a : n \in DOMAIN c /\ c[n] = a[n]
Constructed == pc \in {"ready", "enter", "loop", "done"}
Searching == pc \in {"enter", "loop"}
Depth == Len(stack) - 1

\* the names of the literals of a clause, whatever the marker
ClauseNames(clause) == {LiteralName(clause[i]) : i \in 1..Len(clause)}

---------------------------------------------------------------------------
(* The claims *)

\* no soft clause of the run has a negative weight
NonNegativeWeights == \A i \in 1..Len(soft_clauses) : soft_clauses[i].weight >= 0

\* C1: when solve() has returned, the weight it returns is the maximum of
\* calculate_weight over the complete assignments that satisfy every hard
\* clause (the result of brute-force enumeration).  Stated of the runs without
\* negative weights and without auxiliary constraints.
Optimality ==
    (pc = "done" /\ constraints = <<>> /\ NonNegativeWeights /\ Feasible # {})
        => best_weight = Weight(BruteForceMax)

\* C2: when no complete assignment satisfies all hard clauses, solve()
\* returns (None, -1).
Infeasibility ==
    (pc = "done" /\ Feasible = {}) => (best_solution = NoSolution /\ best_weight = Weight(-1))

\* C3: when the hard clauses are jointly satisfiable, solve() returns an
\* assignment of every declared variable that satisfies every hard clause.
\* Stated of the runs without negative weights and without auxiliary
\* constraints.
Exhaustiveness ==
    (pc = "done" /\ constraints = <<>> /\ NonNegativeWeights /\ Feasible # {}) =>
        /\ best_solution # NoSolution
        /\ DOMAIN best_solution.assignment = DeclaredNames
        /\ SatisfiesHard(best_solution.assignment)

\* C4: optimistic_bound of the partial assignment is at least the
\* calculate_weight of every complete assignment that extends it.
BoundSoundness ==
    Constructed =>
        \A c \in CompleteAssignments :
            Extends(c, assigned_variables) =>
                optimistic_bound(assigned_variables) >= calculate_weight(c)

\* the scratch assignment of is_consistent
Scratch(variable, value) == CopyWith(assigned_variables, variable, value)

\* C5: is_consistent(variable, value) is false exactly when, on the scratch
\* assignment, a registered constraint with its whole scope assigned is
\* false or a hard clause with all its variables assigned is not satisfied.
ConsistencyOnScratch ==
    Constructed =>
        \A i \in 1..Len(unassigned) : \A value \in BOOLEAN :
            LET scratch == Scratch(unassigned[i], value)
            IN  is_consistent(unassigned[i], value) <=>
                  /\ \A k \in 1..Len(constraints) :
                        constraints[k].scope \subseteq DOMAIN scratch
                            => ApplyPredicate(constraints[k], scratch)
                  /\ \A k \in 1..Len(hard_clauses) :
                        ClauseNames(hard_clauses[k]) \subseteq DOMAIN scratch
                            => evaluate_clause(hard_clauses[k], scratch)

\* C6: the constructor raises exactly when MRV and MCV are both enabled, and
\* then nothing of the search has run.
HeuristicExclusivity ==
    /\ pc # "new" => (pc = "error" <=> (use_mcv /\ use_mrv))
    /\ pc = "error" =>
        /\ stack = <<>>
        /\ assigned_variables = EmptyAssignment
        /\ best_solution = Unset
        /\ best_weight = Unset

\* C6 witness: the default construction CSP(cnf) has raised
DefaultConstructionRaised ==
    pc = "error" /\ use_mcv /\ use_mrv /\ use_lcv

\* C7: during solve() the working assignment holds exactly the variables of
\* the calling frames, one per level of recursion; a frame between two values
\* or about to return has its own variable unassigned; after solve() has
\* returned the working assignment is empty.
StackDiscipline ==
    /\ Searching =>
        /\ Cardinality(DOMAIN assigned_variables) = Depth
        /\ DOMAIN assigned_variables = {stack[i].var : i \in 1..Depth}
    /\ pc = "loop" => Top.var \notin DOMAIN assigned_variables
    /\ pc = "done" => (assigned_variables = EmptyAssignment /\ stack = <<>>)

\* C7 witness: solve() has returned an incumbent of positive weight for a
\* formula with hard clauses
SolveReturnedAfterSearch ==
    /\ pc = "done"
    /\ best_solution # NoSolution
    /\ best_weight.value > 0
    /\ hard_clauses # <<>>

\* C8: an assignment returned by solve() satisfies every registered
\* auxiliary constraint.
ConstraintsHoldOnResult ==
    (pc = "done" /\ best_solution # NoSolution) =>
        \A k \in 1..Len(constraints) :
            ApplyPredicate(constraints[k], best_solution.assignment)

\* a clause is satisfied by its literals over assigned variables
SatisfiedByAssigned(clause) ==
    \E i \in 1..Len(clause) :
        /\ LiteralName(clause[i]) \in DOMAIN assigned_variables
        /\ evaluate_literal(clause[i], assigned_variables)

\* the number of hard clauses, not satisfied by assigned literals, that var
\* occurs in, in either polarity
OccurrenceDegree(var) ==
    Cardinality({k \in 1..Len(hard_clauses) :
        /\ ~ SatisfiedByAssigned(hard_clauses[k])
        /\ var \in ClauseNames(hard_clauses[k])})

\* C9: with MRV disabled and MCV enabled, select_unassigned_variable returns
\* the first unassigned variable of the greatest occurrence degree, negated
\* occurrences counted like positive ones.
MCVSelection ==
    (Constructed /\ use_mcv /\ ~ use_mrv /\ unassigned # <<>>) =>
        \E i \in 1..Len(unassigned) :
            /\ select_unassigned_variable = unassigned[i]
            /\ \A j \in 1..Len(unassigned) :
                  OccurrenceDegree(unassigned[j]) <= OccurrenceDegree(unassigned[i])
            /\ \A j \in 1..(i - 1) :
                  OccurrenceDegree(unassigned[j]) < OccurrenceDegree(unassigned[i])

\* a step that recurses adds one frame and one assigned variable
RecursionAdvances ==
    Len(stack') > Len(stack) /\ Searching =>
        /\ Len(stack') = Len(stack) + 1
        /\ Cardinality(DOMAIN assigned_variables') = Cardinality(DOMAIN assigned_variables) + 1

RECURSIVE SubtreeSteps(_)
\* the most steps a frame takes from its entry to its return, when k
\* variables are left to assign: one step to return at once, or one to select,
\* one per value, the subtree of each value, and one to leave the loop
SubtreeSteps(k) ==
    IF k <= 0 THEN 1 ELSE 2 + 2 * (1 + SubtreeSteps(k - 1))

\* the most steps a frame in its loop takes to its return, r values left
LoopSteps(k, r) == r * (1 + SubtreeSteps(k - 1)) + 1

\* the most steps the search has left
Rank ==
    IF ~ Searching THEN 0
    ELSE LET n == Len(variables)
             waiting(i) == LoopSteps(n - (i - 1), Len(stack[i].values))
             RECURSIVE Sum(_)
             Sum(i) == IF i = 0 THEN 0 ELSE waiting(i) + Sum(i - 1)
         IN  Sum(Depth)
             + (IF pc = "enter" THEN SubtreeSteps(n - Depth)
                ELSE LoopSteps(n - Depth, Len(Top.values)))

\* the recursion depth is at most the number of declared variables
DepthBounded == Searching => (Depth >= 0 /\ Depth <= Len(cnf_variables) /\ Rank >= 0)

\* every step of the search lowers the rank
RankDecreases == Searching => Rank' < Rank

\* the search is never stuck before solve() returns
SearchProceeds == Searching => ENABLED Next

\* the rank is a natural number, and the search can always take a step
RankWellFounded == SearchProceeds /\ (Searching => Rank >= 0)

\* C10: the recursion depth never exceeds the number of declared variables,
\* every recursive call has exactly one more variable assigned than its
\* caller, and solve() returns: every step of the search lowers a rank that
\* is a natural number, so the search takes at most Rank steps.
Termination ==
    /\ []DepthBounded
    /\ [][RecursionAdvances /\ RankDecreases]_vars

\* a call of solve() eventually returns: the liveness reading of C10, a
\* property of FairSpec
SolveReturns == Searching ~> pc = "done"

\* C10 witness: the recursion is as deep as there are declared variables
DeepestFrame ==
    pc = "enter" /\ Depth = Len(cnf_variables)

====
